---- MODULE Spec2Model ----
(***************************************************************************)
(* Model of cloudfunc-iotcore: the local program main() of main.go and the *)
(* HTTP-triggered function UpdateWeather of README.md.  Both construct a   *)
(* Cloud IoT client, marshal a FanConfig to JSON, base64-encode it, format *)
(* the device path, issue ModifyCloudToDeviceConfig(...).Do() once and     *)
(* report the outcome.                                                     *)
(*                                                                         *)
(* Text is modelled as a sequence of one-character strings, bytes as       *)
(* their ASCII codes, so that formatting and encoding are computed.        *)
(***************************************************************************)
EXTENDS Integers, Sequences, FiniteSets, TLC

(***************************************************************************)
(* The state; every variable is a function of the run (one execution of    *)
(* main, or one request served by UpdateWeather).                          *)
(*   entry            "main" or "UpdateWeather"                            *)
(*   sunnyConfigData  the FanConfig to send            (main.go:25-28)     *)
(*   address          projectID, location, registryID, deviceID (40-43)    *)
(*   pc               the statement the run is at                          *)
(*   service          "ok" once NewService has succeeded        (19)       *)
(*   err              the last value assigned to err, "nil" if none        *)
(*   bytes, encodedString, devicePath   the locals of lines 29, 35, 45     *)
(*   stdout           what fmt.Printf has printed                          *)
(*   header, body     the calls of w.WriteHeader and w.Write, in order     *)
(*   steps            the operations the run has performed, in order       *)
(*   calls            the requests call.Do() has sent, in order            *)
(***************************************************************************)
VARIABLES entry, sunnyConfigData, address, pc, service, err, bytes,
          encodedString, devicePath, stdout, header, body, steps, calls

vars == <<entry, sunnyConfigData, address, pc, service, err, bytes,
          encodedString, devicePath, stdout, header, body, steps, calls>>

(***************************************************************************)
(* Bounds of the model.                                                    *)
(***************************************************************************)
\* longest address field drawn from FieldAlphabet
MaxFieldLen == 1
\* magnitude of the speeds drawn besides the two of the source
MaxSpeed == 9
\* concurrent invocations of the function in SpecMany
NumRequests == 3

(***************************************************************************)
(* Characters and bytes.                                                   *)
(***************************************************************************)
Range(s) == {s[i] : i \in 1..Len(s)}

\* the characters json.Marshal can emit for a FanConfig, with their codes
AsciiTable ==
    << <<"\"", 34>>, <<",", 44>>, <<"-", 45>>, <<"0", 48>>, <<"1", 49>>,
       <<"2", 50>>, <<"3", 51>>, <<"4", 52>>, <<"5", 53>>, <<"6", 54>>,
       <<"7", 55>>, <<"8", 56>>, <<"9", 57>>, <<":", 58>>, <<"a", 97>>,
       <<"d", 100>>, <<"e", 101>>, <<"f", 102>>, <<"l", 108>>, <<"n", 110>>,
       <<"o", 111>>, <<"p", 112>>, <<"r", 114>>, <<"s", 115>>, <<"t", 116>>,
       <<"u", 117>>, <<"{", 123>>, <<"}", 125>> >>

AsciiChars == {p[1] : p \in Range(AsciiTable)}

AsciiCodes == {p[2] : p \in Range(AsciiTable)}

OrdTable == [c \in AsciiChars |-> (CHOOSE p \in Range(AsciiTable) : p[1] = c)[2]]

Ord(c) == OrdTable[c]

ToBytes(text) == [i \in 1..Len(text) |-> Ord(text[i])]

DigitChars == <<"0", "1", "2", "3", "4", "5", "6", "7", "8", "9">>

\* decimal digits of n >= 0, most significant first
RECURSIVE FormatUint(_)
FormatUint(n) ==
    IF n < 10 THEN <<DigitChars[n + 1]>>
    ELSE FormatUint(n \div 10) \o <<DigitChars[(n % 10) + 1]>>

\* encoding/json writes an int field in base 10, "-" first when negative
FormatInt(n) == IF n < 0 THEN <<"-">> \o FormatUint(0 - n) ELSE FormatUint(n)

FormatBool(b) ==
    IF b THEN <<"t", "r", "u", "e">> ELSE <<"f", "a", "l", "s", "e">>

(***************************************************************************)
(* json.Marshal(FanConfig{On, Speed}): the fields in declaration order     *)
(* under their json tags "on" and "speed", no whitespace.                  *)
(***************************************************************************)
MarshalText(cfg) ==
    <<"{", "\"", "o", "n", "\"", ":">> \o FormatBool(cfg.On)
    \o <<",", "\"", "s", "p", "e", "e", "d", "\"", ":">> \o FormatInt(cfg.Speed)
    \o <<"}">>

Marshal(cfg) == ToBytes(MarshalText(cfg))

(***************************************************************************)
(* b64.StdEncoding.EncodeToString: RFC 4648 alphabet, "=" padding.         *)
(***************************************************************************)
encodeStd ==
    <<"A", "B", "C", "D", "E", "F", "G", "H", "I", "J", "K", "L", "M", "N",
      "O", "P", "Q", "R", "S", "T", "U", "V", "W", "X", "Y", "Z", "a", "b",
      "c", "d", "e", "f", "g", "h", "i", "j", "k", "l", "m", "n", "o", "p",
      "q", "r", "s", "t", "u", "v", "w", "x", "y", "z", "0", "1", "2", "3",
      "4", "5", "6", "7", "8", "9", "+", "/">>

StdPadding == "="

Sextet(v) == encodeStd[v + 1]

\* three bytes -> four characters
EncodeQuantum(b1, b2, b3) ==
    << Sextet(b1 \div 4),
       Sextet((b1 % 4) * 16 + b2 \div 16),
       Sextet((b2 % 16) * 4 + b3 \div 64),
       Sextet(b3 % 64) >>

\* variant: the remainder without padding (as RawStdEncoding writes it)
EncodeRemainderUnpadded(bs) ==
    IF Len(bs) = 1
    THEN << Sextet(bs[1] \div 4), Sextet((bs[1] % 4) * 16) >>
    ELSE << Sextet(bs[1] \div 4),
            Sextet((bs[1] % 4) * 16 + bs[2] \div 16),
            Sextet((bs[2] % 16) * 4) >>

\* the one or two bytes left over at the end, padded to four characters
EncodeRemainder(bs) ==
    IF Len(bs) = 1
    THEN << Sextet(bs[1] \div 4), Sextet((bs[1] % 4) * 16),
            StdPadding, StdPadding >>
    ELSE << Sextet(bs[1] \div 4),
            Sextet((bs[1] % 4) * 16 + bs[2] \div 16),
            Sextet((bs[2] % 16) * 4),
            StdPadding >>

RECURSIVE EncodeToString(_)
EncodeToString(bs) ==
    IF Len(bs) = 0 THEN <<>>
    ELSE IF Len(bs) < 3 THEN EncodeRemainder(bs)
    ELSE EncodeQuantum(bs[1], bs[2], bs[3])
         \o EncodeToString(SubSeq(bs, 4, Len(bs)))

(***************************************************************************)
(* fmt.Sprintf restricted to the %s verb: the format is copied character   *)
(* by character and each %s is replaced by the next operand, which is      *)
(* copied verbatim (never re-scanned for verbs).                           *)
(***************************************************************************)
RECURSIVE Sprintf(_, _)
Sprintf(format, operands) ==
    IF Len(format) = 0 THEN <<>>
    ELSE IF Len(format) >= 2 /\ format[1] = "%" /\ format[2] = "s"
              /\ Len(operands) > 0
    THEN Head(operands) \o Sprintf(SubSeq(format, 3, Len(format)), Tail(operands))
    ELSE <<Head(format)>> \o Sprintf(Tail(format), operands)

devicePathFormat ==
    <<"p", "r", "o", "j", "e", "c", "t", "s", "/", "%", "s", "/", "l", "o",
      "c", "a", "t", "i", "o", "n", "s", "/", "%", "s", "/", "r", "e", "g",
      "i", "s", "t", "r", "i", "e", "s", "/", "%", "s", "/", "d", "e", "v",
      "i", "c", "e", "s", "/", "%", "s">>

\* variant: location and registryID passed in the wrong order
FormatDevicePathSwapped(a) ==
    Sprintf(devicePathFormat,
            <<a.projectID, a.registryID, a.location, a.deviceID>>)

\* variant: an empty field replaced by "-" before formatting
FormatDevicePathDefaulted(a) ==
    Sprintf(devicePathFormat,
            <<IF a.projectID = <<>> THEN <<"-">> ELSE a.projectID,
              IF a.location = <<>> THEN <<"-">> ELSE a.location,
              IF a.registryID = <<>> THEN <<"-">> ELSE a.registryID,
              IF a.deviceID = <<>> THEN <<"-">> ELSE a.deviceID>>)

FormatDevicePath(a) ==
    Sprintf(devicePathFormat,
            <<a.projectID, a.location, a.registryID, a.deviceID>>)

(***************************************************************************)
(* Inputs.  The source fixes the payload and leaves the four address       *)
(* fields as placeholders to be filled in; the model draws both from       *)
(* small sets that contain the values of the source.                       *)
(***************************************************************************)
Entries == {"main", "UpdateWeather"}

\* a negative, zero and a positive speed, and the speeds of main and
\* UpdateWeather
Speeds == {0 - MaxSpeed, 0, MaxSpeed, 20, 40}

FanConfig == [On : BOOLEAN, Speed : Speeds]

FieldAlphabet == {"s"}

FieldValues ==
    UNION {[1..n -> FieldAlphabet] : n \in 0..MaxFieldLen}

placeholderAddress ==
    [projectID |-> <<"Y", "O", "U", "R", "-", "G", "C", "P", "-", "P", "R",
                     "O", "J", "E", "C", "T", "-", "I", "D">>,
     location |-> <<"R", "E", "G", "I", "S", "T", "R", "Y", "-", "L", "O",
                    "C", "A", "T", "I", "O", "N">>,
     registryID |-> <<"R", "E", "G", "I", "S", "T", "R", "Y", "-", "I", "D">>,
     deviceID |-> <<"D", "E", "V", "I", "C", "E", "-", "I", "D">>]

\* fields that are not safe in a path segment, one of them a Sprintf verb
unsafeAddress ==
    [projectID |-> <<"%", "s">>, location |-> <<"s", "/", "s">>,
     registryID |-> <<"%">>, deviceID |-> <<"s">>]

DeviceAddresses ==
    [projectID : FieldValues, location : FieldValues,
     registryID : FieldValues, deviceID : FieldValues]
    \cup {placeholderAddress, unsafeAddress}

\* what call.Do() can return: nil or one of the registry's error classes
DoErrors == {"Unauthenticated", "NotFound", "Unavailable", "InvalidArgument"}

Runs == DOMAIN pc

(***************************************************************************)
(* Control flow of main / UpdateWeather.                                   *)
(***************************************************************************)
\* variant: the return after the failed NewService is missing
AfterNewServiceNoReturn(e) == "marshal"

\* if err != nil { Printf; return } after cloudiot.NewService
AfterNewService(e) == IF e # "nil" THEN "done" ELSE "marshal"

\* if err != nil { Printf; return } after json.Marshal
AfterMarshal(e) == IF e # "nil" THEN "done" ELSE "encode"

\* variant: the call is repeated on Unavailable, up to three attempts
AfterDoRetryUnavailable(e, made) ==
    IF e = "Unavailable" /\ made < 3 THEN "call" ELSE "report"

\* variant: the call is repeated on any error, up to three attempts
AfterDoRetryAny(e, made) ==
    IF e # "nil" /\ made < 3 THEN "call" ELSE "report"

\* call.Do() is followed by the error check, whatever it returned and
\* however many calls were made before
AfterDo(e, made) == "report"

\* fmt.Printf("%v\n", err) under if err != nil
Printed(e) == IF e # "nil" THEN <<e>> ELSE <<>>

\* variant: the JSON bytes are sent without base64 encoding
configRequestRaw(r) == [BinaryData |-> bytes[r]]

configRequest(r) == [BinaryData |-> encodedString[r]]

\* deviceService.ModifyCloudToDeviceConfig(devicePath, &configRequest)
ModifyCloudToDeviceConfig(r) ==
    [path |-> devicePath[r], data |-> configRequest(r).BinaryData]

\* variant: err is one package-level variable shared by all requests
CanCallSharedErr(r) == pc[r] = "call" /\ \A q \in DOMAIN pc : err[q] = "nil"

\* the statement reached at "call" may run
CanCall(r) == pc[r] = "call"

\* variant: the return after the 500 response is missing
ResponseWritesFallThrough(e) ==
    IF e # "nil"
    THEN << [status |-> 500, body |-> "500 - Something bad happened!"],
            [status |-> 200, body |-> "Success!"] >>
    ELSE << [status |-> 200, body |-> "Success!"] >>

\* what UpdateWeather writes to w after call.Do()
ResponseWrites(e) ==
    IF e # "nil"
    THEN << [status |-> 500, body |-> "500 - Something bad happened!"] >>
    ELSE << [status |-> 200, body |-> "Success!"] >>

Update(f, r, v) == [f EXCEPT ![r] = v]

Locals(R, e, cfg, a) ==
    /\ entry = [r \in R |-> e]
    /\ sunnyConfigData = [r \in R |-> cfg]
    /\ address = [r \in R |-> a]
    /\ pc = [r \in R |-> "start"]
    /\ service = [r \in R |-> "none"]
    /\ err = [r \in R |-> "nil"]
    /\ bytes = [r \in R |-> <<>>]
    /\ encodedString = [r \in R |-> <<>>]
    /\ devicePath = [r \in R |-> <<>>]
    /\ stdout = [r \in R |-> <<>>]
    /\ header = [r \in R |-> <<>>]
    /\ body = [r \in R |-> <<>>]
    /\ steps = [r \in R |-> <<>>]
    /\ calls = [r \in R |-> <<>>]

\* one run of main or one request to UpdateWeather
Init ==
    \E e \in Entries, cfg \in FanConfig, a \in DeviceAddresses :
        Locals({1}, e, cfg, a)

\* NumRequests requests to the deployed function, served concurrently,
\* each with the payload and the address of the README's UpdateWeather
InitMany ==
    Locals(1..NumRequests, "UpdateWeather", [On |-> TRUE, Speed |-> 20],
           placeholderAddress)

\* service, err := cloudiot.NewService(ctx)
NewService(r) ==
    /\ pc[r] = "start"
    /\ \E e \in {"nil", "NewServiceError"} :
        /\ err' = Update(err, r, e)
        /\ service' = Update(service, r, IF e = "nil" THEN "ok" ELSE "none")
        /\ stdout' = Update(stdout, r, stdout[r] \o Printed(e))
        /\ steps' = Update(steps, r, steps[r] \o <<"NewService">>)
        /\ pc' = Update(pc, r, AfterNewService(e))
    /\ UNCHANGED <<entry, sunnyConfigData, address, bytes, encodedString,
                   devicePath, header, body, calls>>

\* bytes, err := json.Marshal(sunnyConfigData).  The standard library
\* returns no error for a struct of a bool and an int; the error outcome is
\* kept because the code has a branch for it, so the model admits more
\* behaviours than the program and never fewer.
MarshalStep(r) ==
    /\ pc[r] = "marshal"
    /\ \E e \in {"nil", "MarshalError"} :
        /\ err' = Update(err, r, e)
        /\ bytes' = Update(bytes, r,
                           IF e = "nil" THEN Marshal(sunnyConfigData[r]) ELSE <<>>)
        /\ stdout' = Update(stdout, r, stdout[r] \o Printed(e))
        /\ steps' = Update(steps, r, steps[r] \o <<"Marshal">>)
        /\ pc' = Update(pc, r, AfterMarshal(e))
    /\ UNCHANGED <<entry, sunnyConfigData, address, service, encodedString,
                   devicePath, header, body, calls>>

\* encodedString := b64.StdEncoding.EncodeToString(bytes)
EncodeStep(r) ==
    /\ pc[r] = "encode"
    /\ encodedString' = Update(encodedString, r, EncodeToString(bytes[r]))
    /\ steps' = Update(steps, r, steps[r] \o <<"EncodeToString">>)
    /\ pc' = Update(pc, r, "format")
    /\ UNCHANGED <<entry, sunnyConfigData, address, service, err, bytes,
                   devicePath, stdout, header, body, calls>>

\* devicePath := fmt.Sprintf("projects/%s/...", projectID, ...)
FormatStep(r) ==
    /\ pc[r] = "format"
    /\ devicePath' = Update(devicePath, r, FormatDevicePath(address[r]))
    /\ steps' = Update(steps, r, steps[r] \o <<"Sprintf">>)
    /\ pc' = Update(pc, r, "call")
    /\ UNCHANGED <<entry, sunnyConfigData, address, service, err, bytes,
                   encodedString, stdout, header, body, calls>>

\* call := ...ModifyCloudToDeviceConfig(...); call.Do() sends the request
Do(r) ==
    /\ CanCall(r)
    /\ calls' = Update(calls, r, Append(calls[r], ModifyCloudToDeviceConfig(r)))
    /\ steps' = Update(steps, r, steps[r] \o <<"Do">>)
    /\ pc' = Update(pc, r, "await")
    /\ UNCHANGED <<entry, sunnyConfigData, address, service, err, bytes,
                   encodedString, devicePath, stdout, header, body>>

\* _, err = call.Do() returns with the registry's answer
DoReturn(r) ==
    /\ pc[r] = "await"
    /\ \E e \in {"nil"} \cup DoErrors :
        /\ err' = Update(err, r, e)
        /\ pc' = Update(pc, r, AfterDo(e, Len(calls[r])))
    /\ UNCHANGED <<entry, sunnyConfigData, address, service, bytes,
                   encodedString, devicePath, stdout, header, body, steps,
                   calls>>

\* if err != nil { Printf ... }; UpdateWeather also writes the response
Report(r) ==
    /\ pc[r] = "report"
    /\ stdout' = Update(stdout, r, stdout[r] \o Printed(err[r]))
    /\ IF entry[r] = "UpdateWeather"
       THEN /\ header' = Update(header, r, header[r] \o
                    [i \in 1..Len(ResponseWrites(err[r])) |->
                        ResponseWrites(err[r])[i].status])
            /\ body' = Update(body, r, body[r] \o
                    [i \in 1..Len(ResponseWrites(err[r])) |->
                        ResponseWrites(err[r])[i].body])
       ELSE UNCHANGED <<header, body>>
    /\ steps' = Update(steps, r, steps[r] \o <<"report">>)
    /\ pc' = Update(pc, r, "done")
    /\ UNCHANGED <<entry, sunnyConfigData, address, service, err, bytes,
                   encodedString, devicePath, calls>>

Next ==
    \E r \in Runs :
        \/ NewService(r)
        \/ MarshalStep(r)
        \/ EncodeStep(r)
        \/ FormatStep(r)
        \/ Do(r)
        \/ DoReturn(r)
        \/ Report(r)

Spec == Init /\ [][Next]_vars

SpecMany == InitMany /\ [][Next]_vars

(***************************************************************************)
(* The receiving side, used to state the properties: the decoder of        *)
(* base64.StdEncoding, json.Unmarshal into a FanConfig, and the device     *)
(* path written out segment by segment.                                    *)
(***************************************************************************)
ChrTable == [b \in AsciiCodes |-> (CHOOSE p \in Range(AsciiTable) : p[2] = b)[1]]

Chr(b) == IF b \in AsciiCodes THEN ChrTable[b] ELSE "?"

ToText(bs) == [i \in 1..Len(bs) |-> Chr(bs[i])]

StdChars == Range(encodeStd)

decodeMap ==
    [c \in StdChars |-> (CHOOSE i \in 1..Len(encodeStd) : encodeStd[i] = c) - 1]

IsStdChar(c) == c \in StdChars

SextetOf(c) == decodeMap[c]

\* four characters -> up to three bytes; <<-1>> when malformed
DecodeQuantum(g, last) ==
    IF \A i \in 1..4 : IsStdChar(g[i])
    THEN << SextetOf(g[1]) * 4 + SextetOf(g[2]) \div 16,
            (SextetOf(g[2]) % 16) * 16 + SextetOf(g[3]) \div 4,
            (SextetOf(g[3]) % 4) * 64 + SextetOf(g[4]) >>
    ELSE IF last /\ IsStdChar(g[1]) /\ IsStdChar(g[2]) /\ IsStdChar(g[3])
            /\ g[4] = "="
    THEN << SextetOf(g[1]) * 4 + SextetOf(g[2]) \div 16,
            (SextetOf(g[2]) % 16) * 16 + SextetOf(g[3]) \div 4 >>
    ELSE IF last /\ IsStdChar(g[1]) /\ IsStdChar(g[2]) /\ g[3] = "="
            /\ g[4] = "="
    THEN << SextetOf(g[1]) * 4 + SextetOf(g[2]) \div 16 >>
    ELSE << -1 >>

RECURSIVE DecodeQuanta(_)
DecodeQuanta(s) ==
    IF Len(s) = 0 THEN <<>>
    ELSE DecodeQuantum(SubSeq(s, 1, 4), Len(s) = 4)
         \o DecodeQuanta(SubSeq(s, 5, Len(s)))

\* [ok, bytes]: ok is FALSE on a length that is no multiple of four, a
\* character outside the alphabet or misplaced padding
DecodeString(s) ==
    IF Len(s) % 4 # 0 THEN [ok |-> FALSE, bytes |-> <<>>]
    ELSE IF -1 \in Range(DecodeQuanta(s)) THEN [ok |-> FALSE, bytes |-> <<>>]
    ELSE [ok |-> TRUE, bytes |-> DecodeQuanta(s)]

HasPrefix(t, p) == Len(t) >= Len(p) /\ SubSeq(t, 1, Len(p)) = p

TrimPrefix(t, p) == SubSeq(t, Len(p) + 1, Len(t))

IsDigits(t) == Len(t) > 0 /\ \A i \in 1..Len(t) : t[i] \in Range(DigitChars)

DigitValue(c) == (CHOOSE i \in 1..10 : DigitChars[i] = c) - 1

RECURSIVE ParseUint(_)
ParseUint(t) ==
    IF Len(t) = 0 THEN 0
    ELSE ParseUint(SubSeq(t, 1, Len(t) - 1)) * 10 + DigitValue(t[Len(t)])

\* the number literal at the end of the object, before the closing brace
UnmarshalSpeed(t, on) ==
    IF Len(t) < 2 \/ t[Len(t)] # "}" THEN [ok |-> FALSE]
    ELSE LET num == SubSeq(t, 1, Len(t) - 1) IN
         IF IsDigits(num)
         THEN [ok |-> TRUE, value |-> [On |-> on, Speed |-> ParseUint(num)]]
         ELSE IF num[1] = "-" /\ IsDigits(Tail(num))
         THEN [ok |-> TRUE,
               value |-> [On |-> on, Speed |-> 0 - ParseUint(Tail(num))]]
         ELSE [ok |-> FALSE]

UnmarshalOn(t) ==
    LET speedKey == <<",", "\"", "s", "p", "e", "e", "d", "\"", ":">> IN
    IF HasPrefix(t, <<"t", "r", "u", "e">> \o speedKey)
    THEN UnmarshalSpeed(TrimPrefix(t, <<"t", "r", "u", "e">> \o speedKey), TRUE)
    ELSE IF HasPrefix(t, <<"f", "a", "l", "s", "e">> \o speedKey)
    THEN UnmarshalSpeed(TrimPrefix(t, <<"f", "a", "l", "s", "e">> \o speedKey),
                        FALSE)
    ELSE [ok |-> FALSE]

\* json.Unmarshal(bs, &FanConfig{}) for an object {"on":..,"speed":..}
Unmarshal(bs) ==
    LET onKey == <<"{", "\"", "o", "n", "\"", ":">> IN
    IF HasPrefix(ToText(bs), onKey)
    THEN UnmarshalOn(TrimPrefix(ToText(bs), onKey))
    ELSE [ok |-> FALSE]

\* projects/{projectID}/locations/{location}/registries/{registryID}/devices/{deviceID}
ExpectedPath(a) ==
    <<"p", "r", "o", "j", "e", "c", "t", "s", "/">> \o a.projectID
    \o <<"/", "l", "o", "c", "a", "t", "i", "o", "n", "s", "/">> \o a.location
    \o <<"/", "r", "e", "g", "i", "s", "t", "r", "i", "e", "s", "/">>
    \o a.registryID
    \o <<"/", "d", "e", "v", "i", "c", "e", "s", "/">> \o a.deviceID

Fields(a) == {a.projectID, a.location, a.registryID, a.deviceID}

UnsafeChars == {"/", "%", "?", "#", " "}

PathSafe(f) == Len(f) > 0 /\ Range(f) \cap UnsafeChars = {}

HasEmptyField(a) == <<>> \in Fields(a)

\* a segment between two "/" (or after the last "/") is empty
HasEmptySegment(path) ==
    \/ Len(path) > 0 /\ path[Len(path)] = "/"
    \/ \E i \in 1..(Len(path) - 1) : path[i] = "/" /\ path[i + 1] = "/"

\* the steps of a run, in program order
ProgramOrder ==
    <<"NewService", "Marshal", "EncodeToString", "Sprintf", "Do", "report">>

IsPrefix(s, t) == Len(s) <= Len(t) /\ SubSeq(t, 1, Len(s)) = s

ClientAndPayloadReady(r) == service[r] = "ok" /\ Len(bytes[r]) > 0

PastCall(r) == pc[r] \in {"await", "report", "done"}

\* base64 of {"on":true,"speed":40}
sunnyEncoded ==
    <<"e", "y", "J", "v", "b", "i", "I", "6", "d", "H", "J", "1", "Z", "S",
      "w", "i", "c", "3", "B", "l", "Z", "W", "Q", "i", "O", "j", "Q", "w",
      "f", "Q", "=", "=">>

sunny == [On |-> TRUE, Speed |-> 40]

(***************************************************************************)
(* Properties.                                                             *)
(***************************************************************************)

\* C1: once the client is constructed and the payload serialized, a run
\* issues the remote call exactly once (never more), with the resolved
\* device path and the base64 of the JSON serialization as arguments (for
\* {on: true, speed: 40}: eyJvbiI6dHJ1ZSwic3BlZWQiOjQwfQ==), and it ends in
\* success (nothing printed, 200 from the function) when the call returns
\* no error.
C1_CalledOnceWithPathAndPayload ==
    \A r \in Runs :
        /\ Len(calls[r]) <= 1
        /\ ClientAndPayloadReady(r) /\ PastCall(r) =>
            /\ Len(calls[r]) = 1
            /\ calls[r][1].path = ExpectedPath(address[r])
            /\ calls[r][1].data = EncodeToString(Marshal(sunnyConfigData[r]))
            /\ sunnyConfigData[r] = sunny => calls[r][1].data = sunnyEncoded
        /\ pc[r] = "done" /\ Len(calls[r]) = 1 /\ err[r] = "nil" =>
            /\ stdout[r] = <<>>
            /\ entry[r] = "UpdateWeather" => header[r] = <<200>>

C1_Witness ==
    \E r \in Runs :
        /\ entry[r] = "main" /\ sunnyConfigData[r] = sunny
        /\ address[r] = placeholderAddress
        /\ pc[r] = "done" /\ err[r] = "nil"
        /\ calls[r] = <<[path |-> ExpectedPath(placeholderAddress),
                         data |-> sunnyEncoded]>>

\* C2: for an address whose four fields are non-empty and path-safe, the
\* path formatted and passed to the remote call is exactly
\* projects/{projectID}/locations/{location}/registries/{registryID}/devices/{deviceID},
\* whatever the entry point, the payload and the outcome of the other steps.
C2_PathIsExactFormat ==
    \A r \in Runs :
        (\A f \in Fields(address[r]) : PathSafe(f)) =>
            /\ "Sprintf" \in Range(steps[r]) =>
                   devicePath[r] = ExpectedPath(address[r])
            /\ \A i \in 1..Len(calls[r]) :
                   calls[r][i].path = ExpectedPath(address[r])

C2_Witness ==
    \E r \in Runs :
        /\ address[r] = placeholderAddress
        /\ \A f \in Fields(address[r]) : PathSafe(f)
        /\ Len(calls[r]) = 1
        /\ calls[r][1].path = ExpectedPath(placeholderAddress)

\* C3: the string put in BinaryData and sent is the base64 encoding of the
\* payload's JSON serialization: decoding it with the standard base64
\* decoder succeeds and gives the JSON bytes, and JSON-decoding those gives
\* a payload equal to the original.
C3_EncodeDecodeRoundTrip ==
    \A r \in Runs :
        /\ "EncodeToString" \in Range(steps[r]) =>
            LET decoded == DecodeString(encodedString[r]) IN
            /\ decoded.ok
            /\ decoded.bytes = bytes[r]
            /\ Unmarshal(decoded.bytes)
                   = [ok |-> TRUE, value |-> sunnyConfigData[r]]
        /\ \A i \in 1..Len(calls[r]) :
            /\ calls[r][i].data = encodedString[r]
            /\ "EncodeToString" \in Range(steps[r])

\* a payload whose JSON is 23 bytes long, so that the encoding ends in padding
C3_Witness ==
    \E r \in Runs :
        /\ sunnyConfigData[r] = [On |-> FALSE, Speed |-> 40]
        /\ Len(bytes[r]) % 3 = 2
        /\ Len(calls[r]) = 1
        /\ Unmarshal(DecodeString(calls[r][1].data).bytes).value
               = sunnyConfigData[r]

\* C4: UpdateWeather answers 500 "500 - Something bad happened!" when the
\* remote call returned an error and 200 "Success!" when it returned none;
\* 200/"Success!" is written only after a remote call that returned no
\* error, and at most one status is written per request.
C4_ResponseFollowsRemoteCall ==
    \A r \in Runs :
        entry[r] = "UpdateWeather" =>
            /\ Len(header[r]) <= 1 /\ Len(body[r]) <= 1
            /\ pc[r] = "done" /\ err[r] \in DoErrors =>
                /\ header[r] = <<500>>
                /\ body[r] = <<"500 - Something bad happened!">>
            /\ pc[r] = "done" /\ err[r] = "nil" =>
                /\ header[r] = <<200>>
                /\ body[r] = <<"Success!">>
            /\ 200 \in Range(header[r]) \/ "Success!" \in Range(body[r]) =>
                /\ Len(calls[r]) = 1
                /\ err[r] = "nil"

C4_Witness ==
    \E r \in Runs :
        /\ entry[r] = "UpdateWeather" /\ pc[r] = "done"
        /\ err[r] = "NotFound" /\ Len(calls[r]) = 1
        /\ header[r] = <<500>> /\ body[r] = <<"500 - Something bad happened!">>

\* C5: every request to UpdateWeather, including one where client
\* construction, serialization or the remote call fails, has an explicit
\* response (a status and a body) written by the time the function returns.
C5_AlwaysResponds ==
    \A r \in Runs :
        entry[r] = "UpdateWeather" /\ pc[r] = "done" =>
            Len(header[r]) = 1 /\ Len(body[r]) = 1

\* C6 as stated: when the remote call fails with Unavailable the call is
\* repeated until three attempts (the default maximum) have been made, and
\* failure is then reported with the last error.
C6_RetriesToMaxAttempts ==
    \A r \in Runs :
        pc[r] = "done" /\ err[r] = "Unavailable" =>
            Len(calls[r]) = 3 /\ stdout[r] = <<"Unavailable">>

\* C6 amended: when the remote call fails with Unavailable it is not
\* repeated: exactly one call has been made, none follows, and the run
\* reports failure with that error (printed; 500 from the function).
C6_UnavailableIsNotRetried ==
    \A r \in Runs :
        err[r] = "Unavailable" =>
            /\ Len(calls[r]) = 1
            /\ pc[r] \in {"report", "done"}
            /\ pc[r] = "done" =>
                /\ stdout[r] = <<"Unavailable">>
                /\ entry[r] = "UpdateWeather" => header[r] = <<500>>

C6_Witness ==
    \E r \in Runs :
        pc[r] = "done" /\ err[r] = "Unavailable" /\ Len(calls[r]) = 1
        /\ stdout[r] = <<"Unavailable">>

\* C7: when the remote call fails with Unauthenticated, NotFound or
\* InvalidArgument the call has been made once and is never repeated, when
\* serialization fails no call is made at all, and in both cases the run
\* stops with the error reported (printed).
C7_NonTransientFailsImmediately ==
    \A r \in Runs :
        /\ err[r] \in {"Unauthenticated", "NotFound", "InvalidArgument"} =>
            /\ Len(calls[r]) = 1
            /\ pc[r] \in {"report", "done"}
        /\ err[r] = "MarshalError" => calls[r] = <<>> /\ pc[r] = "done"
        /\ pc[r] = "done"
           /\ err[r] \in {"Unauthenticated", "NotFound", "InvalidArgument",
                          "MarshalError"} =>
               stdout[r] = <<err[r]>>

C7_Witness ==
    \E r \in Runs :
        pc[r] = "done" /\ err[r] = "InvalidArgument" /\ Len(calls[r]) = 1
        /\ stdout[r] = <<"InvalidArgument">>

\* C8 as stated: if any of the four address fields is empty, path
\* resolution fails with InvalidAddressError and no remote call is made
\* (so none is made with a path that has an empty segment).
C8_EmptyFieldRejected ==
    \A r \in Runs :
        HasEmptyField(address[r]) =>
            /\ calls[r] = <<>>
            /\ pc[r] = "done" /\ ClientAndPayloadReady(r) =>
                   err[r] = "InvalidAddressError"

\* C8 amended: if any of the four address fields is empty, path
\* resolution does not fail: the path is formatted with an empty segment
\* (such as projects//locations/...) and the remote call is made once with
\* that path.
C8_EmptyFieldPassedThrough ==
    \A r \in Runs :
        HasEmptyField(address[r]) /\ "Sprintf" \in Range(steps[r]) =>
            /\ devicePath[r] = ExpectedPath(address[r])
            /\ HasEmptySegment(devicePath[r])
            /\ pc[r] = "call" => err[r] = "nil"
            /\ PastCall(r) =>
                   Len(calls[r]) = 1 /\ calls[r][1].path = devicePath[r]

C8_Witness ==
    \E r \in Runs :
        /\ address[r].projectID = <<>> /\ address[r].location = <<"s">>
        /\ Len(calls[r]) = 1
        /\ HasPrefix(calls[r][1].path,
                     <<"p", "r", "o", "j", "e", "c", "t", "s", "/", "/", "l">>)

C10_StepsInOrder ==
    \A r \in Runs :
        /\ IsPrefix(steps[r], ProgramOrder)
        /\ Len(calls[r]) > 0 => ClientAndPayloadReady(r)
        /\ service[r] = "none" /\ Len(steps[r]) > 0 =>
               pc[r] = "done" /\ err[r] = "NewServiceError"
        /\ err[r] \in {"NewServiceError", "MarshalError"} =>
            /\ pc[r] = "done"
            /\ stdout[r] = <<err[r]>>
            /\ calls[r] = <<>>

C10_Witness ==
    \E r \in Runs :
        /\ pc[r] = "done" /\ err[r] = "NewServiceError"
        /\ steps[r] = <<"NewService">>
        /\ stdout[r] = <<"NewServiceError">> /\ calls[r] = <<>>

====
